---- MODULE Spec2Model ----
(***************************************************************************)
(* Model of like_plugin (src/plugin.py): the send_like request loop and    *)
(* the LikeCommand.execute / LikeCommand.reply command flow.               *)
(*                                                                         *)
(* Texts are sequences of string tokens, so that an f-string is the        *)
(* concatenation of its pieces and the empty string is the empty sequence. *)
(* The Chinese literals of the source are written as English glosses; the  *)
(* source literal is given in the comment next to each.                    *)
(***************************************************************************)
EXTENDS Integers, Sequences, FiniteSets, TLC

\* ------------------------------------------------------------- bounds
\* Largest number of segments the rewrite collaborator returns.
MaxSegs == 3
\* Largest number of pieces in a message text matched against the pattern.
MaxTextLen == 3

\* ------------------------------------------------- program constants
times_per_request == 10
max_total == 50

\* The invocations (one per incoming command message).
Procs == {1, 2}

\* ------------------------------------------------------ texts
StrText(s) == IF s = "" THEN <<>> ELSE <<s>>

NETWORK_ERROR == <<"network request exception">>      \* "网络请求异常"
READ_ERROR == <<"failed to read response">>           \* "读取响应失败"
PARSE_ERROR == <<"response parse failure">>           \* "响应解析失败"
UNKNOWN_ERROR_PREFIX == "unknown error, response: "   \* "未知错误，响应内容: "
CAP_PREFIX == "reached the per-run like cap "         \* "已达到单次点赞上限"
CAP_SUFFIX == " times"                                \* "次"
NO_USER_NOTICE == <<"cannot get user ID, like failed">>          \* "无法获取用户ID,点赞失败"
NO_USER_RESULT == <<"cannot get user ID">>                       \* "无法获取用户ID"
CONFIG_NOTICE == <<"Napcat config incomplete, like failed">>     \* "Napcat服务配置不完整，点赞失败"
CONFIG_RESULT == <<"Napcat config incomplete">>                  \* "Napcat服务配置不完整"
SENT_REWRITTEN == <<"sent rewritten like reply">>                \* "已发送重写后的点赞回复"
SENT_RAW == <<"sent like reply">>                                \* "已发送点赞回复"

\* ------------------------------------------------------ JSON values
JNull == [t |-> "null", s |-> ""]
JStr(s) == [t |-> "str", s |-> s]
JNum(s) == [t |-> "num", s |-> s]
JList == [t |-> "list", s |-> ""]
JObj(f) == [t |-> "obj", s |-> "", fields |-> f]
NoFields == [k \in {} |-> JNull]

\* The response bodies the gateway is modelled to send.
BodyTexts ==
    { "<html>502</html>",
      "[]",
      "\"ok\"",
      "null",
      "7",
      "{}",
      "{\"status\":\"ok\"}",
      "{\"status\":\"OK\"}",
      "{\"status\":\"failed\"}",
      "{\"status\":\"failed\",\"message\":\"\"}",
      "{\"status\":\"failed\",\"message\":null}",
      "{\"status\":\"failed\",\"message\":\"no permission\"}",
      "{\"message\":\"ok\"}" }

\* resp.json() on each of the bodies above: raises on text that is not JSON,
\* otherwise the parsed value (any JSON value, not only an object).
JsonLoads(text) ==
    CASE text = "[]" -> [raises |-> FALSE, value |-> JList]
      [] text = "\"ok\"" -> [raises |-> FALSE, value |-> JStr("ok")]
      [] text = "null" -> [raises |-> FALSE, value |-> JNull]
      [] text = "7" -> [raises |-> FALSE, value |-> JNum("7")]
      [] text = "{}" -> [raises |-> FALSE, value |-> JObj(NoFields)]
      [] text = "{\"status\":\"ok\"}" ->
            [raises |-> FALSE, value |-> JObj("status" :> JStr("ok"))]
      [] text = "{\"status\":\"OK\"}" ->
            [raises |-> FALSE, value |-> JObj("status" :> JStr("OK"))]
      [] text = "{\"status\":\"failed\"}" ->
            [raises |-> FALSE, value |-> JObj("status" :> JStr("failed"))]
      [] text = "{\"status\":\"failed\",\"message\":\"\"}" ->
            [raises |-> FALSE,
             value |-> JObj("status" :> JStr("failed") @@ "message" :> JStr(""))]
      [] text = "{\"status\":\"failed\",\"message\":null}" ->
            [raises |-> FALSE,
             value |-> JObj("status" :> JStr("failed") @@ "message" :> JNull)]
      [] text = "{\"status\":\"failed\",\"message\":\"no permission\"}" ->
            [raises |-> FALSE,
             value |-> JObj("status" :> JStr("failed")
                            @@ "message" :> JStr("no permission"))]
      [] text = "{\"message\":\"ok\"}" ->
            [raises |-> FALSE, value |-> JObj("message" :> JStr("ok"))]
      [] OTHER -> [raises |-> TRUE, value |-> JNull]

\* Only a dict has the attribute .get; on a list, str, int or None the
\* attribute lookup raises AttributeError.
HasGet(v) == v.t = "obj"

\* dict.get(key, default)
DictGet(d, key, default) ==
    IF key \in DOMAIN d.fields THEN d.fields[key] ELSE default

\* v == s for a Python value v and a str literal s
PyEqStr(v, s) == v.t = "str" /\ v.s = s

\* bool(v) for the values a message field takes here (None, str, number)
Truthy(v) == (v.t = "str" /\ v.s # "") \/ (v.t = "num" /\ v.s # "0")

\* ------------------------------------------------------ gateway replies
StatusCodes == {200, 500}

\* What one POST can come to: the call raises, the response body cannot be
\* read, or a response with a status code and a body.
Replies ==
    { [kind |-> "exception", status_code |-> 0, text |-> ""],
      [kind |-> "unreadable", status_code |-> 200, text |-> ""] }
    \cup [kind : {"response"}, status_code : StatusCodes, text : BodyTexts]

\* ------------------------------------------------------ collaborators
\* Display names the identity lookup returns (empty: none resolved).
PersonNames == {"", "Alice"}

\* Contents of the segments the rewrite collaborator produces.
SegTexts == {<<"seg A">>, <<"seg B">>}
BoundedSeqs(S, n) == UNION {[1..k -> S] : k \in 0..n}

\* What generator_api.rewrite_reply returns: (result_status, data), data
\* carrying the ordered reply_set.reply_data.
RewriteResults ==
    [result_status : {TRUE}, reply_data : BoundedSeqs(SegTexts, MaxSegs)]
    \cup {[result_status |-> FALSE, reply_data |-> <<>>]}

\* The plugin configuration as get_config sees it; "" and 0 stand for a
\* missing (or empty) host and port.
Configs ==
    [host : {"", "127.0.0.1"}, port : {0, 9999}, token : {"", "secret"},
     enable_rewrite_reply : BOOLEAN]

\* ------------------------------------------------------ state
VARIABLES
    config,          \* the plugin configuration (read only)
    gateway,         \* the answers the gateway can give to a POST
    msg_text,        \* the text of the incoming message
    matched,         \* whether command_pattern matched it
    pc,              \* position of each invocation
    user_id,         \* message.message_info.user_info.user_id ("" : absent)
    person_name,     \* execute: person_name
    client_open,     \* send_like: the AsyncClient is open
    count,           \* send_like: count
    failed_message,  \* send_like: failed_message
    replies,         \* the gateway's answers to the POSTs issued so far
    like_result,     \* what send_like returned
    raw_reply,       \* reply: raw_reply
    rewrite_result,  \* reply: result_status, data
    seg_i,           \* reply: position of the for loop in reply_data
    reply_from,      \* which call site of execute called reply
    reply_result,    \* what reply returned
    result,          \* what execute returned
    raised,          \* the exception execute raised ("" : none)
    log              \* the calls made on collaborators, in order

hostVars == <<config, gateway, msg_text, matched>>
likeVars == <<client_open, count, failed_message, replies, like_result>>
replyVars == <<raw_reply, rewrite_result, seg_i, reply_from, reply_result>>
vars == <<config, gateway, msg_text, matched, pc, user_id, person_name, client_open, count, failed_message,
          replies, like_result, raw_reply, rewrite_result, seg_i, reply_from,
          reply_result, result, raised, log>>

Ev(e, t) == [ev |-> e, text |-> t]
Logged(p, e) == log' = [log EXCEPT ![p] = Append(@, e)]
Goto(p, l) == pc' = [pc EXCEPT ![p] = l]

NoLikeResult == [returned |-> FALSE, success |-> FALSE, count |-> 0, failed_message |-> <<>>]
NoResult == [returned |-> FALSE, success |-> FALSE, message |-> <<>>, code |-> 0]
NoRewrite == [result_status |-> FALSE, reply_data |-> <<>>]

\* ------------------------------------------------------ send_like helpers
\* headers["Authorization"] is set only for a non-empty token; the text of a
\* post event is the payload (user_id, times) followed by that header.
Headers(napcat_token) == IF napcat_token # "" THEN <<napcat_token>> ELSE <<>>
Payload(uid) == <<uid, ToString(times_per_request)>>

PostRaised(r) == r.kind = "exception"
TextRaised(r) == r.kind = "unreadable"
JsonRaised(r) == r.kind = "response" /\ JsonLoads(r.text).raises
Parsed(r) == r.kind = "response" /\ ~JsonLoads(r.text).raises
GetRaised(r) == Parsed(r) /\ ~HasGet(JsonLoads(r.text).value)

\* data_json.get("status") != "ok"
StatusNotOk(data_json) == ~PyEqStr(DictGet(data_json, "status", JNull), "ok")

\* The message field taken as it is, without the fallback.
NotOkMessage_NoFallback(data_json, text) ==
    StrText(DictGet(data_json, "message", JNull).s)

\* failed_message when the status is not ok
NotOkMessage(data_json, text) ==
    LET m == DictGet(data_json, "message", JNull)
    IN  IF Truthy(m) THEN StrText(m.s) ELSE <<UNKNOWN_ERROR_PREFIX, text>>

NotOkReply(r) ==
    Parsed(r) /\ HasGet(JsonLoads(r.text).value) /\ StatusNotOk(JsonLoads(r.text).value)
OkReply(r) ==
    Parsed(r) /\ HasGet(JsonLoads(r.text).value) /\ ~StatusNotOk(JsonLoads(r.text).value)

\* The cap test with > for >=.
CapReached_Strict(c) == c > max_total
CapReached(c) == c >= max_total
CapMessage == <<CAP_PREFIX, ToString(max_total), CAP_SUFFIX>>

\* The outcome with failed_message passed on in the success case too.
Outcome_KeepsMessage(c, fm) ==
    [returned |-> TRUE, success |-> c > 0, count |-> c, failed_message |-> fm]

\* if count > 0: return True, count, ""  /  return False, 0, failed_message
Outcome(c, fm) ==
    IF c > 0
    THEN [returned |-> TRUE, success |-> TRUE, count |-> c, failed_message |-> <<>>]
    ELSE [returned |-> TRUE, success |-> FALSE, count |-> 0, failed_message |-> fm]

\* ------------------------------------------------------ command_pattern
\* A message text is a sequence of the pieces the pattern is built from:
\* the prefixes / and #, and the command words like, 赞我 ("zanwo") and
\* 麦麦赞我 ("maimaizanwo").
PatternTokens == {"/", "#", "like", "zanwo", "maimaizanwo"}

Lit(t) == [op |-> "lit", tok |-> t]
Alt(a, b) == [op |-> "alt", l |-> a, r |-> b]
Cat(a, b) == [op |-> "cat", l |-> a, r |-> b]
Opt(a) == [op |-> "opt", l |-> a]

\* Every prefix optional, for every command word.
command_pattern_AllOptional ==
    Cat(Opt(Alt(Lit("/"), Lit("#"))),
        Alt(Lit("like"), Alt(Lit("zanwo"), Lit("maimaizanwo"))))

\* r"^(((/|#)(like))|(/|#)?(赞我|麦麦赞我))$"
command_pattern ==
    Alt(Cat(Alt(Lit("/"), Lit("#")), Lit("like")),
        Cat(Opt(Alt(Lit("/"), Lit("#"))), Alt(Lit("zanwo"), Lit("maimaizanwo"))))

\* The texts left over after the regular expression re has matched a
\* prefix of s, in every way it can.
RECURSIVE Remainders(_, _)
Remainders(re, s) ==
    CASE re.op = "lit" ->
            IF s # <<>> /\ Head(s) = re.tok THEN {Tail(s)} ELSE {}
      [] re.op = "alt" -> Remainders(re.l, s) \cup Remainders(re.r, s)
      [] re.op = "cat" -> UNION {Remainders(re.r, t) : t \in Remainders(re.l, s)}
      [] re.op = "opt" -> {s} \cup Remainders(re.l, s)

\* ^ ... $ : the whole text is matched
PatternMatches(re, s) == <<>> \in Remainders(re, s)

\* ------------------------------------------------------ initial states
\* An invocation about to run execute, and one that has not been dispatched.
Started(p, uid) ==
    /\ pc[p] = "execute"
    /\ user_id[p] = uid
Idle(p) ==
    /\ pc[p] = "idle"
    /\ user_id[p] = ""

InitLocals ==
    /\ person_name = [p \in Procs |-> ""]
    /\ client_open = [p \in Procs |-> FALSE]
    /\ count = [p \in Procs |-> 0]
    /\ failed_message = [p \in Procs |-> <<>>]
    /\ replies = [p \in Procs |-> <<>>]
    /\ like_result = [p \in Procs |-> NoLikeResult]
    /\ raw_reply = [p \in Procs |-> <<>>]
    /\ rewrite_result = [p \in Procs |-> NoRewrite]
    /\ seg_i = [p \in Procs |-> 0]
    /\ reply_from = [p \in Procs |-> ""]
    /\ reply_result = [p \in Procs |-> <<>>]
    /\ result = [p \in Procs |-> NoResult]
    /\ raised = [p \in Procs |-> ""]
    /\ log = [p \in Procs |-> <<>>]

\* One command message, from a user with or without an identifier.
Init ==
    /\ config \in Configs
    /\ gateway = Replies
    /\ msg_text = <<"/", "like">>
    /\ matched = TRUE
    /\ pc \in [Procs -> {"execute", "idle"}]
    /\ user_id \in [Procs -> {"", "10001"}]
    /\ \E uid \in {"", "10001"} : Started(1, uid)
    /\ Idle(2)
    /\ InitLocals

\* ------------------------------------------------------ execute
\* person_id = person_api.get_person_id('qq', user_id)
GetPersonId(p) ==
    /\ pc[p] = "execute"
    /\ Logged(p, Ev("get_person_id", StrText(user_id[p])))
    /\ Goto(p, "get_person_value")
    /\ UNCHANGED <<hostVars, user_id, person_name, likeVars, replyVars, result, raised>>

\* person_name = await person_api.get_person_value(person_id, "person_name")
GetPersonValue(p) ==
    /\ pc[p] = "get_person_value"
    /\ \E name \in PersonNames : person_name' = [person_name EXCEPT ![p] = name]
    /\ Logged(p, Ev("get_person_value", StrText(user_id[p])))
    /\ Goto(p, "check_user")
    /\ UNCHANGED <<hostVars, user_id, likeVars, replyVars, result, raised>>

\* if not user_id: send_text(...); return False, "...", 1
NoUserId(p) ==
    /\ pc[p] = "check_user"
    /\ user_id[p] = ""
    /\ Logged(p, Ev("send_text", NO_USER_NOTICE))
    /\ result' = [result EXCEPT ![p] =
            [returned |-> TRUE, success |-> FALSE, message |-> NO_USER_RESULT, code |-> 1]]
    /\ Goto(p, "done")
    /\ UNCHANGED <<hostVars, user_id, person_name, likeVars, replyVars, raised>>

\* The configuration test with and for or.
ConfigMissing_Both(c) == c.port = 0 /\ c.host = ""

\* if not napcat_port or not napcat_host
ConfigMissing(c) == c.port = 0 \/ c.host = ""

\* the configuration check fails: await self.reply(notice)
ConfigIncomplete(p) ==
    /\ pc[p] = "check_user"
    /\ user_id[p] # ""
    /\ ConfigMissing(config)
    /\ raw_reply' = [raw_reply EXCEPT ![p] = CONFIG_NOTICE]
    /\ reply_from' = [reply_from EXCEPT ![p] = "config"]
    /\ Goto(p, "reply")
    /\ UNCHANGED <<hostVars, user_id, person_name, likeVars, rewrite_result, seg_i,
                   reply_result, result, raised, log>>

\* the configuration is complete: call send_like, which sets its locals and
\* enters the async with block (the client is opened)
SendLikeEnter(p) ==
    /\ pc[p] = "check_user"
    /\ user_id[p] # ""
    /\ ~ConfigMissing(config)
    /\ count' = [count EXCEPT ![p] = 0]
    /\ failed_message' = [failed_message EXCEPT ![p] = <<>>]
    /\ client_open' = [client_open EXCEPT ![p] = TRUE]
    /\ Goto(p, "post")
    /\ UNCHANGED <<hostVars, user_id, person_name, replies, like_result, replyVars,
                   result, raised, log>>

\* ------------------------------------------------------ send_like
\* resp = await client.post(path, json=payload, headers=headers): issued
Post(p) ==
    /\ pc[p] = "post"
    /\ Logged(p, Ev("post", Payload(user_id[p]) \o Headers(config.token)))
    /\ Goto(p, "await_post")
    /\ UNCHANGED <<hostVars, user_id, person_name, likeVars, replyVars, result, raised>>

\* A failure that records its message and goes round the loop again.
Break_KeepsLooping(p, r, fm) ==
    /\ replies' = [replies EXCEPT ![p] = Append(@, r)]
    /\ failed_message' = [failed_message EXCEPT ![p] = fm]
    /\ Goto(p, "post")
    /\ UNCHANGED <<hostVars, user_id, person_name, client_open, like_result, replyVars,
                   result, raised, log>>

\* A break of the while loop: failed_message is set, the async with block is
\* left (the client is closed) and control is at the final if.
Break(p, r, fm) ==
    /\ replies' = [replies EXCEPT ![p] = Append(@, r)]
    /\ failed_message' = [failed_message EXCEPT ![p] = fm]
    /\ client_open' = [client_open EXCEPT ![p] = FALSE]
    /\ Goto(p, "like_return")
    /\ UNCHANGED <<hostVars, user_id, person_name, like_result, replyVars,
                   result, raised, log>>

\* the POST raises
PostRaises(p) ==
    /\ pc[p] = "await_post"
    /\ \E r \in gateway :
        /\ PostRaised(r)
        /\ Break(p, r, NETWORK_ERROR)
    /\ UNCHANGED count

\* resp.text raises
TextRaises(p) ==
    /\ pc[p] = "await_post"
    /\ \E r \in gateway :
        /\ TextRaised(r)
        /\ Break(p, r, READ_ERROR)
    /\ UNCHANGED count

\* resp.json() raises
JsonRaises(p) ==
    /\ pc[p] = "await_post"
    /\ \E r \in gateway :
        /\ JsonRaised(r)
        /\ Break(p, r, PARSE_ERROR)
    /\ UNCHANGED count

\* data_json.get raises AttributeError: nothing catches it, the async with
\* block closes the client and the exception leaves send_like and execute
GetRaises(p) ==
    /\ pc[p] = "await_post"
    /\ \E r \in gateway :
        /\ GetRaised(r)
        /\ replies' = [replies EXCEPT ![p] = Append(@, r)]
    /\ client_open' = [client_open EXCEPT ![p] = FALSE]
    /\ raised' = [raised EXCEPT ![p] = "AttributeError"]
    /\ Goto(p, "raised")
    /\ UNCHANGED <<hostVars, user_id, person_name, count, failed_message, like_result,
                   replyVars, result, log>>

\* the status is not "ok"
NotOk(p) ==
    /\ pc[p] = "await_post"
    /\ \E r \in gateway :
        /\ NotOkReply(r)
        /\ Break(p, r, NotOkMessage(JsonLoads(r.text).value, r.text))
    /\ UNCHANGED count

\* An ok body under an error status code taken for a failed request.
Ok_ChecksStatusCode(p) ==
    /\ pc[p] = "await_post"
    /\ \E r \in gateway :
        /\ OkReply(r)
        /\ IF r.status_code >= 400
           THEN /\ Break(p, r, NETWORK_ERROR)
                /\ UNCHANGED count
           ELSE /\ replies' = [replies EXCEPT ![p] = Append(@, r)]
                /\ count' = [count EXCEPT ![p] = @ + times_per_request]
                /\ IF CapReached(count'[p])
                   THEN /\ failed_message' = [failed_message EXCEPT ![p] = CapMessage]
                        /\ client_open' = [client_open EXCEPT ![p] = FALSE]
                        /\ Goto(p, "like_return")
                   ELSE /\ Goto(p, "post")
                        /\ UNCHANGED <<failed_message, client_open>>
                /\ UNCHANGED <<hostVars, user_id, person_name, like_result, replyVars,
                               result, raised, log>>

\* count kept in one place for all invocations.
Ok_SharedCount(p) ==
    /\ pc[p] = "await_post"
    /\ \E r \in gateway :
        /\ OkReply(r)
        /\ replies' = [replies EXCEPT ![p] = Append(@, r)]
    /\ count' = [q \in Procs |-> count[q] + times_per_request]
    /\ IF CapReached(count'[p])
       THEN /\ failed_message' = [failed_message EXCEPT ![p] = CapMessage]
            /\ client_open' = [client_open EXCEPT ![p] = FALSE]
            /\ Goto(p, "like_return")
       ELSE /\ Goto(p, "post")
            /\ UNCHANGED <<failed_message, client_open>>
    /\ UNCHANGED <<hostVars, user_id, person_name, like_result, replyVars,
                   result, raised, log>>

\* The cap tested before the increment instead of after it.
Ok_TestsCapFirst(p) ==
    /\ pc[p] = "await_post"
    /\ \E r \in gateway :
        /\ OkReply(r)
        /\ replies' = [replies EXCEPT ![p] = Append(@, r)]
    /\ count' = [count EXCEPT ![p] = @ + times_per_request]
    /\ IF CapReached(count[p])
       THEN /\ failed_message' = [failed_message EXCEPT ![p] = CapMessage]
            /\ client_open' = [client_open EXCEPT ![p] = FALSE]
            /\ Goto(p, "like_return")
       ELSE /\ Goto(p, "post")
            /\ UNCHANGED <<failed_message, client_open>>
    /\ UNCHANGED <<hostVars, user_id, person_name, like_result, replyVars,
                   result, raised, log>>

\* the status is "ok": count += times_per_request, and the loop goes on
\* unless the cap is reached
Ok(p) ==
    /\ pc[p] = "await_post"
    /\ \E r \in gateway :
        /\ OkReply(r)
        /\ replies' = [replies EXCEPT ![p] = Append(@, r)]
    /\ count' = [count EXCEPT ![p] = @ + times_per_request]
    /\ IF CapReached(count'[p])
       THEN /\ failed_message' = [failed_message EXCEPT ![p] = CapMessage]
            /\ client_open' = [client_open EXCEPT ![p] = FALSE]
            /\ Goto(p, "like_return")
       ELSE /\ Goto(p, "post")
            /\ UNCHANGED <<failed_message, client_open>>
    /\ UNCHANGED <<hostVars, user_id, person_name, like_result, replyVars,
                   result, raised, log>>

\* if count > 0: return True, count, "" / return False, 0, failed_message
SendLikeReturn(p) ==
    /\ pc[p] = "like_return"
    /\ like_result' = [like_result EXCEPT ![p] = Outcome(count[p], failed_message[p])]
    /\ Goto(p, "format")
    /\ UNCHANGED <<hostVars, user_id, person_name, client_open, count, failed_message,
                   replies, replyVars, result, raised, log>>

\* ------------------------------------------------------ the result message
\* target = f"为 {person_name} " if person_name else ""
Target(name) == IF name # "" THEN <<"for ", name, " ">> ELSE <<>>

\* The success text stating the likes asked for, the failed request included.
RawReply_Attempted(name, lr) ==
    IF lr.success
    THEN <<"succeeded ">> \o Target(name)
            \o <<"liking ", ToString(lr.count + times_per_request), " times">>
    ELSE Target(name) \o <<"like failed: ">> \o lr.failed_message

\* f"已成功{target}点赞 {count} 次"  /  f"{target}点赞失败: {failed_message}"
RawReply(name, lr) ==
    IF lr.success
    THEN <<"succeeded ">> \o Target(name) \o <<"liking ", ToString(lr.count), " times">>
    ELSE Target(name) \o <<"like failed: ">> \o lr.failed_message

\* execute formats the result of send_like and calls reply with it
FormatReply(p) ==
    /\ pc[p] = "format"
    /\ raw_reply' = [raw_reply EXCEPT ![p] = RawReply(person_name[p], like_result[p])]
    /\ reply_from' = [reply_from EXCEPT ![p] = "like"]
    /\ Goto(p, "reply")
    /\ UNCHANGED <<hostVars, user_id, person_name, likeVars, rewrite_result, seg_i,
                   reply_result, result, raised, log>>

\* ------------------------------------------------------ reply
\* The raw message is sent and reply returns.
SendRaw(p) ==
    /\ Logged(p, Ev("send_text", raw_reply[p]))
    /\ reply_result' = [reply_result EXCEPT ![p] = SENT_RAW]
    /\ Goto(p, "reply_return")

\* like_plugin.enable_rewrite_reply is off: send the raw message
ReplyDirect(p) ==
    /\ pc[p] = "reply"
    /\ ~config.enable_rewrite_reply
    /\ SendRaw(p)
    /\ UNCHANGED <<hostVars, user_id, person_name, likeVars, raw_reply, rewrite_result,
                   seg_i, reply_from, result, raised>>

\* like_plugin.enable_rewrite_reply is on: await generator_api.rewrite_reply
RewriteCall(p) ==
    /\ pc[p] = "reply"
    /\ config.enable_rewrite_reply
    /\ Logged(p, Ev("rewrite_reply", raw_reply[p]))
    /\ Goto(p, "await_rewrite")
    /\ UNCHANGED <<hostVars, user_id, person_name, likeVars, replyVars, result, raised>>

\* the collaborator reports success: the for loop over reply_data starts
RewriteSucceeds(p) ==
    /\ pc[p] = "await_rewrite"
    /\ \E rr \in RewriteResults :
        /\ rr.result_status
        /\ rewrite_result' = [rewrite_result EXCEPT ![p] = rr]
    /\ seg_i' = [seg_i EXCEPT ![p] = 1]
    /\ Goto(p, "segments")
    /\ UNCHANGED <<hostVars, user_id, person_name, likeVars, raw_reply, reply_from,
                   reply_result, result, raised, log>>

\* the collaborator reports failure: fall through to the raw message
RewriteFails(p) ==
    /\ pc[p] = "await_rewrite"
    /\ \E rr \in RewriteResults :
        /\ ~rr.result_status
        /\ rewrite_result' = [rewrite_result EXCEPT ![p] = rr]
    /\ SendRaw(p)
    /\ UNCHANGED <<hostVars, user_id, person_name, likeVars, raw_reply, seg_i,
                   reply_from, result, raised>>

\* await self.send_text(reply_seg.content)
SendSegment(p) ==
    /\ pc[p] = "segments"
    /\ seg_i[p] <= Len(rewrite_result[p].reply_data)
    /\ Logged(p, Ev("send_text", rewrite_result[p].reply_data[seg_i[p]]))
    /\ Goto(p, "sleep")
    /\ UNCHANGED <<hostVars, user_id, person_name, likeVars, replyVars, result, raised>>

\* await asyncio.sleep(0.3), then the next segment
Sleep(p) ==
    /\ pc[p] = "sleep"
    /\ Logged(p, Ev("sleep", <<"0.3">>))
    /\ seg_i' = [seg_i EXCEPT ![p] = @ + 1]
    /\ Goto(p, "segments")
    /\ UNCHANGED <<hostVars, user_id, person_name, likeVars, raw_reply, rewrite_result,
                   reply_from, reply_result, result, raised>>

\* The for loop ends without returning, and the raw message is sent too.
SegmentsDone_FallsThrough(p) ==
    /\ pc[p] = "segments"
    /\ seg_i[p] > Len(rewrite_result[p].reply_data)
    /\ SendRaw(p)
    /\ UNCHANGED <<hostVars, user_id, person_name, likeVars, raw_reply, rewrite_result,
                   seg_i, reply_from, result, raised>>

\* the for loop is exhausted: return "已发送重写后的点赞回复"
SegmentsDone(p) ==
    /\ pc[p] = "segments"
    /\ seg_i[p] > Len(rewrite_result[p].reply_data)
    /\ reply_result' = [reply_result EXCEPT ![p] = SENT_REWRITTEN]
    /\ Goto(p, "reply_return")
    /\ UNCHANGED <<hostVars, user_id, person_name, likeVars, raw_reply, rewrite_result,
                   seg_i, reply_from, result, raised, log>>

\* ------------------------------------------------------ execute returns
\* return False, "Napcat服务配置不完整", 1
ReturnConfigError(p) ==
    /\ pc[p] = "reply_return"
    /\ reply_from[p] = "config"
    /\ result' = [result EXCEPT ![p] =
            [returned |-> TRUE, success |-> FALSE, message |-> CONFIG_RESULT, code |-> 1]]
    /\ Goto(p, "done")
    /\ UNCHANGED <<hostVars, user_id, person_name, likeVars, replyVars, raised, log>>

\* The result reports how the delivery went, not how the like went.
ReturnResult_DeliveryFlag(p) ==
    /\ pc[p] = "reply_return"
    /\ reply_from[p] = "like"
    /\ result' = [result EXCEPT ![p] =
            [returned |-> TRUE, success |-> reply_result[p] = SENT_REWRITTEN,
             message |-> raw_reply[p] \o <<" ">> \o reply_result[p], code |-> 1]]
    /\ Goto(p, "done")
    /\ UNCHANGED <<hostVars, user_id, person_name, likeVars, replyVars, raised, log>>

\* return success, f"{raw_reply} {reply_result}", 1
ReturnResult(p) ==
    /\ pc[p] = "reply_return"
    /\ reply_from[p] = "like"
    /\ result' = [result EXCEPT ![p] =
            [returned |-> TRUE, success |-> like_result[p].success,
             message |-> raw_reply[p] \o <<" ">> \o reply_result[p], code |-> 1]]
    /\ Goto(p, "done")
    /\ UNCHANGED <<hostVars, user_id, person_name, likeVars, replyVars, raised, log>>

\* ------------------------------------------------------ specification
Step(p) ==
    \/ GetPersonId(p)
    \/ GetPersonValue(p)
    \/ NoUserId(p)
    \/ ConfigIncomplete(p)
    \/ SendLikeEnter(p)
    \/ Post(p)
    \/ PostRaises(p)
    \/ TextRaises(p)
    \/ JsonRaises(p)
    \/ GetRaises(p)
    \/ NotOk(p)
    \/ Ok(p)
    \/ SendLikeReturn(p)
    \/ FormatReply(p)
    \/ ReplyDirect(p)
    \/ RewriteCall(p)
    \/ RewriteSucceeds(p)
    \/ RewriteFails(p)
    \/ SendSegment(p)
    \/ Sleep(p)
    \/ SegmentsDone(p)
    \/ ReturnConfigError(p)
    \/ ReturnResult(p)

Next == \E p \in Procs : Step(p)

Spec == Init /\ [][Next]_vars

\* ------------------------------------------------------ command routing
\* A message of up to MaxTextLen pieces has been received and is matched
\* against command_pattern; execute is dispatched only on a match.
InitTrigger ==
    /\ config \in {c \in Configs : c.host # "" /\ c.port # 0 /\ c.token = ""
                                    /\ c.enable_rewrite_reply}
    /\ gateway = Replies
    /\ msg_text \in BoundedSeqs(PatternTokens, MaxTextLen)
    /\ matched = FALSE
    /\ pc = [p \in Procs |-> IF p = 1 THEN "received" ELSE "idle"]
    /\ user_id = [p \in Procs |-> IF p = 1 THEN "10001" ELSE ""]
    /\ InitLocals

Dispatch(p) ==
    /\ pc[p] = "received"
    /\ matched' = PatternMatches(command_pattern, msg_text)
    /\ Goto(p, IF matched' THEN "execute" ELSE "ignored")
    /\ UNCHANGED <<config, gateway, msg_text, user_id, person_name, likeVars,
                   replyVars, result, raised, log>>

NextTrigger == \E p \in Procs : Dispatch(p)

SpecTrigger == InitTrigger /\ [][NextTrigger]_vars

\* ------------------------------------------------------ observations
\* The events of one kind an invocation has logged, and how many.
EventsOf(p, kinds) == SelectSeq(log[p], LAMBDA e : e.ev \in kinds)
Posts(p) == Len(EventsOf(p, {"post"}))

\* The gateway inputs the claims speak of, described by the body text alone.
OkBody == "{\"status\":\"ok\"}"
IsOkAnswer(r) == r.kind = "response" /\ r.text = OkBody
FirstOk(p, k) == Len(replies[p]) >= k /\ \A i \in 1..k : IsOkAnswer(replies[p][i])

\* send_like has come to its end, by returning or by raising.
LikeReturned(p) == like_result[p].returned
LikeEnded(p) == LikeReturned(p) \/ pc[p] = "raised"
InLoop(p) == pc[p] \in {"post", "await_post"}

LikeOutcome(ok, c, fm) ==
    [returned |-> TRUE, success |-> ok, count |-> c, failed_message |-> fm]

\* C1: if every gateway reply has status "ok", send_like issues exactly 5
\* POSTs, then stops, and returns success=true with count=50.
C1_AllOkFiveCalls ==
    \A p \in Procs :
        /\ FirstOk(p, Len(replies[p])) =>
                Len(replies[p]) <= 5 /\ Posts(p) <= 5
        /\ (FirstOk(p, Len(replies[p])) /\ Len(replies[p]) = 5) => ~InLoop(p)
        /\ (FirstOk(p, Len(replies[p])) /\ LikeEnded(p)) =>
                /\ Posts(p) = 5
                /\ Len(replies[p]) = 5
                /\ raised[p] = ""
                /\ like_result[p] = LikeOutcome(TRUE, 50, <<>>)

C1_Witness ==
    \E p \in Procs : pc[p] = "done" /\ FirstOk(p, 5) /\ like_result[p].count = 50

\* C2: if the first k calls (1 <= k <= 4) return "ok" and call k+1 fails in
\* any way, send_like returns success=true with count=10*k.
C2_PartialSuccessPreserved ==
    \A p \in Procs : \A k \in 1..4 :
        ( /\ Len(replies[p]) = k + 1
          /\ FirstOk(p, k)
          /\ ~IsOkAnswer(replies[p][k + 1])
          /\ LikeEnded(p) )
        => /\ raised[p] = ""
           /\ like_result[p] = LikeOutcome(TRUE, 10 * k, <<>>)

\* C3: if the first POST raises a transport exception, send_like issues no
\* further call and returns success=false, count=0, message "网络请求异常".
C3_FirstCallTransportError ==
    \A p \in Procs :
        (Len(replies[p]) >= 1 /\ replies[p][1].kind = "exception") =>
            /\ Len(replies[p]) = 1
            /\ Posts(p) = 1
            /\ ~InLoop(p)
            /\ raised[p] = ""
            /\ pc[p] # "like_return" => like_result[p] = LikeOutcome(FALSE, 0, NETWORK_ERROR)

C3_Witness ==
    \E p \in Procs :
        /\ pc[p] = "done"
        /\ Len(replies[p]) = 1
        /\ replies[p][1].kind = "exception"
        /\ ~result[p].success

\* The bodies that parse to an object whose status is not the literal "ok",
\* with the message field of each ("" : absent, null or empty).
NotOkObjectBodies ==
    { "{}", "{\"status\":\"OK\"}", "{\"status\":\"failed\"}",
      "{\"status\":\"failed\",\"message\":\"\"}",
      "{\"status\":\"failed\",\"message\":null}",
      "{\"status\":\"failed\",\"message\":\"no permission\"}",
      "{\"message\":\"ok\"}" }
MessageFieldOf(text) ==
    CASE text = "{\"status\":\"failed\",\"message\":\"no permission\"}" -> "no permission"
      [] text = "{\"message\":\"ok\"}" -> "ok"
      [] OTHER -> ""
ExpectedNotOkMessage(text) ==
    IF MessageFieldOf(text) # ""
    THEN <<MessageFieldOf(text)>>
    ELSE <<UNKNOWN_ERROR_PREFIX, text>>

\* C4: if the first reply is a parsed reply whose status field is not the
\* literal "ok" (or is absent), send_like stops after that one call and
\* returns success=false, count=0; the failure message is the reply's message
\* field when present and non-empty, otherwise a fallback embedding the body.
C4_FirstReplyNotOk ==
    \A p \in Procs :
        ( /\ Len(replies[p]) >= 1
          /\ replies[p][1].kind = "response"
          /\ replies[p][1].text \in NotOkObjectBodies )
        => /\ Len(replies[p]) = 1
           /\ Posts(p) = 1
           /\ ~InLoop(p)
           /\ raised[p] = ""
           /\ pc[p] # "like_return" =>
                like_result[p] =
                    LikeOutcome(FALSE, 0, ExpectedNotOkMessage(replies[p][1].text))

C4_Witness ==
    \E p \in Procs :
        /\ pc[p] = "done"
        /\ Len(replies[p]) = 1
        /\ replies[p][1].text = "{\"status\":\"failed\",\"message\":null}"
        /\ like_result[p].failed_message
                = <<UNKNOWN_ERROR_PREFIX, "{\"status\":\"failed\",\"message\":null}">>

\* The bodies that are not the expected structured reply: text that is not
\* JSON, and JSON that is not an object.
UnparsableBodies == {"<html>502</html>", "[]", "\"ok\"", "null", "7"}

\* C5: whenever a response body cannot be parsed as the expected structured
\* reply (not JSON, or JSON that is not an object), send_like stops issuing
\* calls and returns an outcome instead of raising; with no earlier success
\* the outcome is success=false, count=0, message "响应解析失败".
C5_UnparsableBodyIsParseFailure ==
    \A p \in Procs :
        ( /\ Len(replies[p]) >= 1
          /\ replies[p][Len(replies[p])].kind = "response"
          /\ replies[p][Len(replies[p])].text \in UnparsableBodies )
        => /\ ~InLoop(p)
           /\ pc[p] # "raised"
           /\ (LikeReturned(p) /\ Len(replies[p]) = 1) =>
                like_result[p] = LikeOutcome(FALSE, 0, PARSE_ERROR)

\* C6: execute never raises to its caller, whatever the message, the
\* configuration, the identity lookup, the gateway and the rewrite
\* collaborator do.
C6_ExecuteNeverRaises ==
    \A p \in Procs : pc[p] # "raised" /\ raised[p] = ""

\* ------------------------------------------------------ command flow
Lookups(p) == Len(EventsOf(p, {"get_person_id", "get_person_value"}))
Rewrites(p) == Len(EventsOf(p, {"rewrite_reply"}))
Sends(p) == EventsOf(p, {"send_text"})
NoUser(p) == pc[p] # "idle" /\ user_id[p] = ""
NoGateway(p) == pc[p] # "idle" /\ user_id[p] # "" /\ (config.host = "" \/ config.port = 0)

\* C7: when the message carries no user identifier, execute sends the
\* failure notice and returns failure without having called the identity
\* lookup and without any gateway call.
C7_NoUserShortCircuits ==
    \A p \in Procs :
        (NoUser(p) /\ pc[p] = "done") =>
            /\ result[p].returned
            /\ ~result[p].success
            /\ Sends(p) = <<Ev("send_text", NO_USER_NOTICE)>>
            /\ Lookups(p) = 0
            /\ Posts(p) = 0

\* C8: when napcat.host or napcat.port is missing (and a user identifier is
\* present), execute issues no gateway call, delivers a configuration-error
\* notice, and returns success=false.
C8_ConfigMissingNotice ==
    \A p \in Procs :
        NoGateway(p) =>
            /\ Posts(p) = 0
            /\ pc[p] # "raised"
            /\ pc[p] = "done" =>
                    /\ result[p].returned
                    /\ ~result[p].success
                    /\ Len(Sends(p)) >= 1

\* C9 as claimed: for both missing-input errors execute calls neither the
\* gateway nor the rewrite collaborator, whatever enable_rewrite_reply is.
C9_NoExternalCallOnMissingInput ==
    \A p \in Procs :
        (NoUser(p) \/ NoGateway(p)) => Posts(p) = 0 /\ Rewrites(p) = 0

\* C9 amended: for both missing-input errors execute never calls the
\* gateway; with no user id it does not call the rewrite collaborator either,
\* whatever enable_rewrite_reply is; with no gateway configuration it calls
\* the rewrite collaborator once when enable_rewrite_reply is on, and not at
\* all when it is off.
C9_MissingInputCalls ==
    \A p \in Procs :
        /\ (NoUser(p) \/ NoGateway(p)) => Posts(p) = 0 /\ ~client_open[p]
        /\ NoUser(p) => Rewrites(p) = 0
        /\ (NoGateway(p) /\ pc[p] = "done") =>
                Rewrites(p) = IF config.enable_rewrite_reply THEN 1 ELSE 0

C9_Witness ==
    \E p \in Procs :
        /\ NoGateway(p)
        /\ pc[p] = "done"
        /\ config.enable_rewrite_reply
        /\ Rewrites(p) = 1
        /\ log[p][3] = Ev("rewrite_reply", CONFIG_NOTICE)

\* The calls reply makes, in order (execute makes none of these itself once
\* it has called reply).
ReplyTrace(p) == EventsOf(p, {"rewrite_reply", "send_text", "sleep"})

\* send s1, pause, send s2, pause, ..., send sn, pause
SegmentTrace(segs) ==
    [i \in 1..(2 * Len(segs)) |->
        IF i % 2 = 1 THEN Ev("send_text", segs[(i + 1) \div 2])
                     ELSE Ev("sleep", <<"0.3">>)]

IsPrefix(a, b) == Len(a) <= Len(b) /\ \A i \in 1..Len(a) : a[i] = b[i]
ReplyReturned(p) == reply_from[p] # "" /\ pc[p] \in {"reply_return", "done"}

\* C10: when rewrite is enabled and the collaborator succeeds with segments
\* s1..sn, exactly those n segments are sent, in order, each send and its
\* pause completing before the next send, and the raw message is not sent in
\* addition; when rewrite is disabled, or the collaborator reports failure,
\* exactly one message is sent and it is the raw reply.
C10_ReplyDelivery ==
    \A p \in Procs :
        /\ pc[p] \in {"segments", "sleep"} =>
                /\ Len(ReplyTrace(p)) = 2 * seg_i[p] - (IF pc[p] = "sleep" THEN 0 ELSE 1)
                /\ IsPrefix(ReplyTrace(p),
                            <<Ev("rewrite_reply", raw_reply[p])>>
                                \o SegmentTrace(rewrite_result[p].reply_data))
        /\ (ReplyReturned(p) /\ config.enable_rewrite_reply
                /\ rewrite_result[p].result_status) =>
                /\ ReplyTrace(p) = <<Ev("rewrite_reply", raw_reply[p])>>
                                        \o SegmentTrace(rewrite_result[p].reply_data)
                /\ Sends(p) = [i \in 1..Len(rewrite_result[p].reply_data) |->
                                    Ev("send_text", rewrite_result[p].reply_data[i])]
                /\ reply_result[p] = SENT_REWRITTEN
        /\ (ReplyReturned(p) /\ config.enable_rewrite_reply
                /\ ~rewrite_result[p].result_status) =>
                /\ ReplyTrace(p) = <<Ev("rewrite_reply", raw_reply[p]),
                                     Ev("send_text", raw_reply[p])>>
                /\ reply_result[p] = SENT_RAW
        /\ (ReplyReturned(p) /\ ~config.enable_rewrite_reply) =>
                /\ ReplyTrace(p) = <<Ev("send_text", raw_reply[p])>>
                /\ reply_result[p] = SENT_RAW

C10_Witness ==
    \E p \in Procs :
        /\ pc[p] = "done"
        /\ like_result[p].returned
        /\ rewrite_result[p].result_status
        /\ rewrite_result[p].reply_data = << <<"seg B">>, <<"seg A">>, <<"seg B">> >>
        /\ Len(Sends(p)) = 3

\* C11: every completed run of execute has delivered at least one chat
\* message to the user, for every like outcome and every result of the
\* rewrite collaborator (a successful rewrite with no segments included).
C11_AlwaysAMessage ==
    \A p \in Procs : pc[p] = "done" => Len(Sends(p)) >= 1

\* C12: whenever execute reaches send_like, the success flag it returns
\* equals the one send_like returned, whether the rewrite collaborator
\* succeeded, failed or was disabled.
C12_SuccessMatchesLike ==
    \A p \in Procs :
        (pc[p] = "done" /\ Posts(p) >= 1) =>
            /\ LikeReturned(p)
            /\ result[p].returned
            /\ result[p].code = 1
            /\ result[p].success = like_result[p].success
            /\ result[p].success = FirstOk(p, 1)

C12_Witness ==
    \E p \in Procs :
        /\ pc[p] = "done"
        /\ result[p].success
        /\ Len(replies[p]) = 3
        /\ config.enable_rewrite_reply
        /\ ~rewrite_result[p].result_status

\* The texts the trigger is documented to accept, and the eight of them the
\* pattern is written for.
NineTriggers ==
    { <<"/", "like">>, <<"#", "like">>, <<"like">>,
      <<"/", "zanwo">>, <<"#", "zanwo">>, <<"zanwo">>,
      <<"/", "maimaizanwo">>, <<"#", "maimaizanwo">>, <<"maimaizanwo">> }
EightTriggers == NineTriggers \ {<<"like">>}
Routed(p) == pc[p] \in {"execute", "ignored"}

\* C13 as claimed: the pattern accepts exactly the nine texts /like, #like,
\* like, /赞我, #赞我, 赞我, /麦麦赞我, #麦麦赞我, 麦麦赞我 and no other text
\* built from these prefixes and command words.
C13_NineTriggers ==
    \A p \in Procs :
        Routed(p) => /\ matched = (msg_text \in NineTriggers)
                     /\ (pc[p] = "execute") = (msg_text \in NineTriggers)

\* C13 amended: the pattern accepts exactly the eight texts /like, #like,
\* /赞我, #赞我, 赞我, /麦麦赞我, #麦麦赞我, 麦麦赞我 (whole-message match) and
\* no other text built from these prefixes and command words; the bare word
\* like is not accepted.
C13_EightTriggers ==
    \A p \in Procs :
        Routed(p) => /\ matched = (msg_text \in EightTriggers)
                     /\ (pc[p] = "execute") = (msg_text \in EightTriggers)

C13_Witness ==
    \E p \in Procs : pc[p] = "ignored" /\ msg_text = <<"like">> /\ ~matched

\* ------------------------------------------------------ the request loop
OkCount(rs) == Cardinality({i \in DOMAIN rs : IsOkAnswer(rs[i])})
LastReply(p) == replies[p][Len(replies[p])]
LastFailed(p) == Len(replies[p]) >= 1 /\ ~IsOkAnswer(LastReply(p))

\* C14: the POSTs of one send_like are issued one after another, a call
\* starting only once the previous outcome is known; at least 1 and at most 5
\* are issued; no call follows a failed call; with k ok replies followed by a
\* reply that is not ok the number of calls is min(5, k + 1).
C14_SequentialBoundedNoRetry ==
    \A p \in Procs :
        /\ Posts(p) = Len(replies[p]) + (IF pc[p] = "await_post" THEN 1 ELSE 0)
        /\ Posts(p) <= 5
        /\ \A i \in 1..(Len(replies[p]) - 1) : IsOkAnswer(replies[p][i])
        /\ LastFailed(p) => ~InLoop(p)
        /\ LikeEnded(p) =>
                /\ Posts(p) >= 1
                /\ Posts(p) = IF LastFailed(p) THEN OkCount(replies[p]) + 1 ELSE 5

C14_Witness ==
    \E p \in Procs :
        /\ pc[p] = "done"
        /\ Posts(p) = 3
        /\ FirstOk(p, 2)
        /\ replies[p][3].kind = "unreadable"

\* The failure message each failing answer sets.
ReasonOf(r) ==
    CASE r.kind = "exception" -> NETWORK_ERROR
      [] r.kind = "unreadable" -> READ_ERROR
      [] r.kind = "response" /\ r.text \in NotOkObjectBodies -> ExpectedNotOkMessage(r.text)
      [] OTHER -> PARSE_ERROR

C16_Accumulation ==
    \A p \in Procs :
        /\ count[p] = 10 * OkCount(replies[p])
        /\ count[p] \in {0, 10, 20, 30, 40, 50}
        /\ count[p] <= max_total
        /\ InLoop(p) => count[p] < 50

C16_Witness ==
    \E p \in Procs : pc[p] = "like_return" /\ count[p] = 50 /\ Posts(p) = 5

\* ------------------------------------------------------ termination
\* The event loop runs an invocation that can take a step, and every POST
\* comes to an end (an answer or an exception).
SpecFair == Spec /\ WF_vars(Next)

\* C17: provided every POST eventually returns a response or raises, every
\* send_like invocation eventually returns an outcome, for every sequence of
\* gateway behaviours.
C17_SendLikeReturnsOutcome ==
    \A p \in Procs : (pc[p] = "post") ~> LikeReturned(p)


\* send_like always comes to an end, by returning or by raising.
SendLikeEnds ==
    \A p \in Procs : (pc[p] = "post") ~> LikeEnded(p)

\* ------------------------------------------------------ two invocations
\* One answer of each kind the loop tells apart.
ConcGateway ==
    { [kind |-> "exception", status_code |-> 0, text |-> ""],
      [kind |-> "unreadable", status_code |-> 200, text |-> ""],
      [kind |-> "response", status_code |-> 200, text |-> OkBody],
      [kind |-> "response", status_code |-> 500, text |-> "[]"],
      [kind |-> "response", status_code |-> 500, text |-> "<html>502</html>"],
      [kind |-> "response", status_code |-> 200, text |-> "{\"status\":\"failed\"}"] }

\* Two command messages from different users, handled by the same event
\* loop: the invocations interleave at their await points.
InitConc ==
    /\ config = [host |-> "127.0.0.1", port |-> 9999, token |-> "secret",
                 enable_rewrite_reply |-> FALSE]
    /\ gateway = ConcGateway
    /\ msg_text = <<"/", "like">>
    /\ matched = TRUE
    /\ pc = [p \in Procs |-> "execute"]
    /\ user_id = [p \in Procs |-> IF p = 1 THEN "10001" ELSE "10002"]
    /\ InitLocals

\* The steps of execute up to the return of send_like.
LikeStep(p) ==
    \/ GetPersonId(p)
    \/ GetPersonValue(p)
    \/ SendLikeEnter(p)
    \/ Post(p)
    \/ PostRaises(p)
    \/ TextRaises(p)
    \/ JsonRaises(p)
    \/ GetRaises(p)
    \/ NotOk(p)
    \/ Ok(p)
    \/ SendLikeReturn(p)

NextConc == \E p \in Procs : LikeStep(p)

SpecConc == InitConc /\ [][NextConc]_vars

\* What send_like returns for the answers rs when it runs alone.
AloneOutcome(rs) ==
    IF OkCount(rs) > 0
    THEN LikeOutcome(TRUE, 10 * OkCount(rs), <<>>)
    ELSE LikeOutcome(FALSE, 0, ReasonOf(rs[1]))

\* The state of invocation p that send_like and its calls make up.
Own(p) ==
    <<count[p], failed_message[p], replies[p], like_result[p], client_open[p], log[p]>>
OwnNext(p) ==
    <<count'[p], failed_message'[p], replies'[p], like_result'[p], client_open'[p], log'[p]>>

IsolatedState ==
    \A p \in Procs :
        /\ count[p] = 10 * OkCount(replies[p])
        /\ Posts(p) = Len(replies[p]) + (IF pc[p] = "await_post" THEN 1 ELSE 0)
        /\ \A i \in 1..Len(log[p]) :
                log[p][i].ev = "post" =>
                    log[p][i].text = <<user_id[p], "10">> \o <<config.token>>
        /\ LikeReturned(p) => like_result[p] = AloneOutcome(replies[p])
        /\ client_open[p] = InLoop(p)
        /\ LikeEnded(p) => ~client_open[p]

IsolatedStep ==
    \A p \in Procs : pc'[p] = pc[p] => OwnNext(p) = Own(p)

\* C18: when two invocations for different users interleave at their await
\* points, each one's count, call sequence and outcome depend only on the
\* answers to its own calls and are what it produces when run alone (a step
\* of one leaves the other's state untouched); each opens its own connection
\* and has released it when send_like ends, on every exit path.
C18_Isolation == []IsolatedState /\ [][IsolatedStep]_vars

C18_Witness ==
    /\ pc[1] = "await_post" /\ count[1] = 40 /\ client_open[1]
    /\ pc[2] = "await_post" /\ count[2] = 10 /\ client_open[2]


\* ------------------------------------------------------ status codes
\* The answers with their HTTP status codes erased.
Erase(r) == [r EXCEPT !.status_code = 0]
Erased(rs) == [i \in DOMAIN rs |-> Erase(rs[i])]

\* C19: the HTTP status code of a response has no influence on send_like:
\* the number of calls and the outcome are determined by the response bodies
\* (and by where exceptions occur) alone, so a response with an error status
\* code and body status "ok" counts as 10 likes.
C19_StatusCodeIgnored ==
    \A p \in Procs :
        /\ count[p] = 10 * OkCount(Erased(replies[p]))
        /\ \A i \in DOMAIN replies[p] :
                (replies[p][i].status_code = 500 /\ replies[p][i].text = OkBody)
                    => count[p] >= 10 * i
        /\ Len(replies[p]) >= 1 =>
                InLoop(p) = /\ OkCount(Erased(replies[p])) = Len(replies[p])
                            /\ Len(replies[p]) < 5
        /\ LikeReturned(p) => like_result[p] = AloneOutcome(Erased(replies[p]))

C19_Witness ==
    \E p \in Procs :
        /\ LikeReturned(p)
        /\ Len(replies[p]) = 3
        /\ replies[p][1] = [kind |-> "response", status_code |-> 500, text |-> OkBody]
        /\ replies[p][2] = [kind |-> "response", status_code |-> 200, text |-> OkBody]
        /\ replies[p][3].status_code = 200
        /\ like_result[p] = LikeOutcome(TRUE, 20, <<>>)

\* ------------------------------------------------------ the user-facing text
Tokens(t) == {t[i] : i \in DOMAIN t}
EndsWith(t, u) ==
    Len(u) <= Len(t) /\ SubSeq(t, Len(t) - Len(u) + 1, Len(t)) = u
Formatted(p) == reply_from[p] = "like"

====
